---- MODULE Spec2Model ----
(***************************************************************************)
(* A model of src/st.py: one Streamlit script run of main() and            *)
(* display_analysis_results(), from the upload of a JSON or CSV report to  *)
(* the download buttons.  The pandas calls the script makes are modelled   *)
(* by what they do to the values the script hands them.                    *)
(*                                                                         *)
(* Representation.  A DataFrame is [cols, rows, dtype]: the set of column  *)
(* names, the sequence of rows, and the dtype of the sentiment_score       *)
(* column.  A comment is the sequence of its whitespace-delimited words    *)
(* (<<>> is the empty string), a label is a string, a score is a number of *)
(* tenths (5 is 0.5).  NoText and NaN are the missing values (None / NaN)  *)
(* of a text cell and of a score cell.  A fraction is [num, den]; den = 0  *)
(* is the float NaN.                                                       *)
(***************************************************************************)
EXTENDS Integers, Sequences, FiniteSets, TLC

VARIABLES
    pc,                 \* position of the script run
    uploaded,           \* the file in the sidebar uploader
    out,                \* what the page shows so far, in order
    raised,             \* where an exception was raised ("" if none)
    df,                 \* the Table
    metadata,           \* results_data['metadata']
    sentiment_analysis, \* results_data['sentiment_analysis']
    sentiment_filter,   \* value of the multiselect
    min_confidence,     \* value of the slider, in tenths
    filtered_df,        \* the FilteredView
    sentiment_counts,   \* tab 1: label -> count
    word_freq,          \* tab 3: sequence of [word, n]
    score_stats,        \* tab 4: describe() of the score column
    samples,            \* tab 4: label -> first comments
    csv_data,           \* the filtered-results download
    prev_view           \* the view whose download was uploaded again

vars == <<pc, uploaded, out, raised, df, metadata, sentiment_analysis,
          sentiment_filter, min_confidence, filtered_df, sentiment_counts,
          word_freq, score_stats, samples, csv_data, prev_view>>

----------------------------------------------------------------------------
(* Bounds of the model *)

MaxRows == 3

(* Program constants *)

TopWords == 20
SampleRows == 5
SliderMax == 10

----------------------------------------------------------------------------
(* Values *)

NaN == 0 - 1
NoText == <<"<NA>">>
EmptyMap == [x \in {} |-> 0]

Columns == {"comment", "sentiment_label", "sentiment_score"}

Labels == {"POSITIVE", "positive", "NEGATIVE"}
Scores == {5}
Texts == {<<>>, <<"Good", "the", "it", "good">>}
Thresholds == {0, 5, SliderMax}

StopWords ==
    {"the", "and", "or", "but", "in", "on", "at", "to", "for", "of", "with",
     "by", "from", "up", "about", "into", "through", "during", "before",
     "after", "above", "below", "between", "among"}

(* str.lower() on the words of the model *)
Lower(w) ==
    CASE w = "Good" -> "good"
      [] w = "None" -> "none"
      [] w = "POSITIVE" -> "positive"
      [] w = "NEGATIVE" -> "negative"
      [] OTHER -> w

NaNFrac == [num |-> 0, den |-> 0]
Frac(n, d) == [num |-> n, den |-> d]

Min(a, b) == IF a < b THEN a ELSE b

Range(s) == {s[i] : i \in 1..Len(s)}

RECURSIVE SelectSeq2(_, _)
(* the subsequence of s at the positions in keep, in order *)
SelectSeq2(s, keep) ==
    IF s = <<>> THEN <<>>
    ELSE LET n == Len(s)
             front == SelectSeq2(SubSeq(s, 1, n - 1), keep)
         IN IF n \in keep THEN Append(front, s[n]) ELSE front

RECURSIVE Concat(_)
Concat(ss) == IF ss = <<>> THEN <<>> ELSE Head(ss) \o Concat(Tail(ss))

RECURSIVE Unique(_)
(* Series.unique(): the distinct values in order of first appearance *)
Unique(s) ==
    IF s = <<>> THEN <<>>
    ELSE LET front == Unique(SubSeq(s, 1, Len(s) - 1))
             x == s[Len(s)]
         IN IF x \in Range(front) THEN front ELSE Append(front, x)

Count(s, x) == Cardinality({i \in 1..Len(s) : s[i] = x})

RECURSIVE Sum(_)
Sum(s) == IF s = <<>> THEN 0 ELSE Head(s) + Sum(Tail(s))

RECURSIVE Insert(_, _)
Insert(sorted, x) ==
    IF sorted = <<>> THEN <<x>>
    ELSE IF x <= Head(sorted) THEN <<x>> \o sorted
    ELSE <<Head(sorted)>> \o Insert(Tail(sorted), x)

RECURSIVE Sort(_)
Sort(s) == IF s = <<>> THEN <<>> ELSE Insert(Sort(Tail(s)), Head(s))

----------------------------------------------------------------------------
(* DataFrames *)

Frame(cols, rows, dtype) == [cols |-> cols, rows |-> rows, dtype |-> dtype]

NoFrame == Frame({}, <<>>, "float64")

(* DataFrame.empty: an axis of length 0 *)
Empty(d) == d.cols = {} \/ d.rows = <<>>

Column(d, c) == [i \in 1..Len(d.rows) |-> d.rows[i][c]]

(* the dtype pandas infers for a score column built from a list of records:
   a column of None only stays an object column, a None beside a number
   becomes NaN in a float64 column *)
InferDtype(cols, rows) ==
    IF /\ "sentiment_score" \in cols
       /\ rows # <<>>
       /\ \A i \in 1..Len(rows) : rows[i].sentiment_score = NaN
    THEN "object"
    ELSE "float64"

----------------------------------------------------------------------------
(* Uploads.  A row of a file has a value for each column of the file and
   the missing value elsewhere.  In a JSON report a text or a score may be
   null; in a CSV file a field may be empty. *)

RowsOf(cols, texts, scores) ==
    { [comment |-> c, sentiment_label |-> l, sentiment_score |-> s] :
        c \in (IF "comment" \in cols THEN texts ELSE {NoText}),
        l \in (IF "sentiment_label" \in cols THEN Labels ELSE {""}),
        s \in (IF "sentiment_score" \in cols THEN scores ELSE {NaN}) }

(* the tables of n rows *)
TablesOf(n, cols, texts, scores) == [1..n -> RowsOf(cols, texts, scores)]

JsonTexts == Texts \cup {NoText}
JsonScores == Scores \cup {NaN}
CsvTexts == Texts
CsvScores == Scores \cup {NaN}

Dates == {"absent", "iso", "bad"}
Wordclouds == {"absent", "png", "bad"}

File(fmt, ok, has_data, cols, rows, date, wc) ==
    [fmt |-> fmt, ok |-> ok, has_data |-> has_data, cols |-> cols,
     rows |-> rows, analysis_date |-> date, wordcloud |-> wc]

NoFile == File("none", FALSE, FALSE, {}, <<>>, "absent", "absent")

(* a file json.load cannot parse *)
BadJson == File("json", FALSE, FALSE, {}, <<>>, "absent", "absent")

(* a report without a 'data' key *)
JsonWithoutData(date, wc) == File("json", TRUE, FALSE, {}, <<>>, date, wc)

JsonWithData(cols, rows, date, wc) ==
    File("json", TRUE, TRUE, cols, rows, date, wc)

CsvFileOf(ok, cols, rows) ==
    File("csv", ok, TRUE, cols, rows, "absent", "absent")

(* a file pd.read_csv cannot parse *)
BadCsv == CsvFileOf(FALSE, {}, <<>>)

----------------------------------------------------------------------------
(* pd.read_csv and DataFrame.to_csv *)

(* the field texts read_csv takes for a missing value (its default
   na_values), as word sequences; <<>> is the empty field *)
NaValues ==
    {<<>>, <<"NA">>, <<"N/A">>, <<"NULL">>, <<"NaN">>, <<"None">>, <<"n/a">>,
     <<"nan">>, <<"null">>, <<"<NA>">>, <<"#N/A">>, <<"#NA">>}

ReadText(field) == IF field \in NaValues THEN NoText ELSE field

WriteText(value) == IF value = NoText THEN <<>> ELSE value

ReadRow(r) == [r EXCEPT !.comment = ReadText(r.comment)]

WriteRow(r) == [r EXCEPT !.comment = WriteText(r.comment)]

(* pd.read_csv(uploaded_csv): header plus rows; an empty field is NaN *)
ReadCsv(f) ==
    Frame(f.cols, [i \in 1..Len(f.rows) |-> ReadRow(f.rows[i])], "float64")

(* df.to_csv(index=False): a missing value is written as an empty field *)
ToCsv(d) ==
    CsvFileOf(TRUE, d.cols, [i \in 1..Len(d.rows) |-> WriteRow(d.rows[i])])

(* pd.DataFrame(results_data['data']): a table from a list of records; no
   record, no column *)
FromRecords(cols, rows) ==
    IF rows = <<>> THEN NoFrame ELSE Frame(cols, rows, InferDtype(cols, rows))

(* df.to_dict(orient='records') followed by pd.DataFrame(...): the missing
   values are float NaN, so the score column is float64 *)
FromCsvRecords(d) ==
    IF d.rows = <<>> THEN NoFrame ELSE Frame(d.cols, d.rows, "float64")

----------------------------------------------------------------------------
(* The CSV summary of main() *)

(* Series.value_counts(): label -> number of rows, over the labels present *)
ValueCounts(col) == [l \in Range(col) |-> Count(col, l)]

(* Series.get(key, default) *)
Get(counts, key, default) ==
    IF key \in DOMAIN counts THEN counts[key] ELSE default

PositiveCount(counts) == Get(counts, "POSITIVE", Get(counts, "positive", 0))

NegativeCount(counts) == Get(counts, "NEGATIVE", Get(counts, "negative", 0))

Defined(col) == SelectSeq(col, LAMBDA x : x # NaN)

(* Series.mean(): the mean of the defined values, NaN when there is none *)
Mean(col) ==
    LET xs == Defined(col)
    IN IF xs = <<>> THEN NaNFrac ELSE Frac(Sum(xs), Len(xs))

NoSummary ==
    [present |-> FALSE, distribution |-> EmptyMap,
     average_confidence |-> Frac(0, 1),
     positive_percentage |-> Frac(0, 1), negative_percentage |-> Frac(0, 1)]

(* the dict built when the table has a sentiment_label column and a row *)
Summary(d) ==
    LET counts == ValueCounts(Column(d, "sentiment_label"))
        total == Len(d.rows)
    IN [present |-> TRUE,
        distribution |-> counts,
        average_confidence |->
            IF "sentiment_score" \in d.cols
            THEN Mean(Column(d, "sentiment_score")) ELSE Frac(0, 1),
        positive_percentage |-> Frac(100 * PositiveCount(counts), total),
        negative_percentage |-> Frac(100 * NegativeCount(counts), total)]

NoMetadata ==
    [present |-> FALSE, total_comments |-> 0, analysis_date |-> "absent"]

----------------------------------------------------------------------------
(* Filters *)

NoSelection == [none |-> TRUE, labels |-> {}]
Selection(labels) == [none |-> FALSE, labels |-> labels]

(* the truth value Python gives the multiselect's list, or None *)
Truthy(sf) == ~sf.none /\ sf.labels # {}

(* Series >= min_confidence: False on a missing score *)
ScoreAtLeast(score, mc) == score # NaN /\ score >= mc

(* the filters with the score mask of the whole table laid, by position,
   over the rows the label filter kept *)
ApplyFiltersByPosition(d, sf, mc) ==
    LET n == Len(d.rows)
        by_label ==
            IF Truthy(sf) /\ "sentiment_label" \in d.cols
            THEN {i \in 1..n : d.rows[i].sentiment_label \in sf.labels}
            ELSE 1..n
        kept == SelectSeq2(d.rows, by_label)
        by_score ==
            IF "sentiment_score" \in d.cols
            THEN {i \in 1..Len(kept) :
                     ScoreAtLeast(d.rows[i].sentiment_score, mc)}
            ELSE 1..Len(kept)
    IN Frame(d.cols, SelectSeq2(kept, by_score), d.dtype)

(* lines 155-159 *)
ApplyFilters(d, sf, mc) ==
    LET n == Len(d.rows)
        by_label ==
            IF Truthy(sf) /\ "sentiment_label" \in d.cols
            THEN {i \in 1..n : d.rows[i].sentiment_label \in sf.labels}
            ELSE 1..n
        by_score ==
            IF "sentiment_score" \in d.cols
            THEN {i \in by_label : ScoreAtLeast(d.rows[i].sentiment_score, mc)}
            ELSE by_label
    IN Frame(d.cols, SelectSeq2(d.rows, by_score), d.dtype)

----------------------------------------------------------------------------
(* Aggregates of the filtered view *)

(* astype(str) of a comment cell: a missing value becomes the text of the
   missing value, "nan" for the NaN of the CSV path and "None" for the
   null of a JSON report *)
AsStr(value, fmt) ==
    IF value = NoText
    THEN (IF fmt = "json" THEN <<"None">> ELSE <<"nan">>)
    ELSE value

(* " ".join(...).lower().split() *)
AllWords(d, fmt) ==
    LET texts == [i \in 1..Len(d.rows) |-> AsStr(d.rows[i].comment, fmt)]
        joined == Concat(texts)
    IN [i \in 1..Len(joined) |-> Lower(joined[i])]

KeepWord(w) == w \notin StopWords /\ Len(w) > 2

RECURSIVE ByCount(_, _)
(* value_counts() order: most frequent first, first seen first in a tie *)
ByCount(words, distinct) ==
    IF distinct = <<>> THEN <<>>
    ELSE LET best == CHOOSE i \in 1..Len(distinct) :
                       \A j \in 1..Len(distinct) :
                          \/ Count(words, distinct[i]) > Count(words, distinct[j])
                          \/ /\ Count(words, distinct[i]) = Count(words, distinct[j])
                             /\ i <= j
             rest == SelectSeq2(distinct, (1..Len(distinct)) \ {best})
         IN <<[word |-> distinct[best], n |-> Count(words, distinct[best])]>>
            \o ByCount(words, rest)

(* lines 234-241 *)
WordFreq(d, fmt) ==
    LET words == SelectSeq(AllWords(d, fmt), KeepWord)
        ranked == ByCount(words, Unique(words))
    IN SubSeq(ranked, 1, Min(TopWords, Len(ranked)))

NoStats ==
    [keys |-> {}, count |-> 0, mean |-> NaNFrac, min |-> NaN, max |-> NaN,
     median |-> NaNFrac, std_defined |-> FALSE]

(* the 50% row of describe(): linear interpolation between the middle
   values *)
Median(xs) ==
    LET sorted == Sort(xs)
        n == Len(xs)
    IN IF n = 0 THEN NaNFrac
       ELSE IF n % 2 = 1 THEN Frac(sorted[(n + 1) \div 2], 1)
       ELSE Frac(sorted[n \div 2] + sorted[n \div 2 + 1], 2)

(* Series.describe(): the numeric summary of a float64 column, and
   count / unique / top / freq of an object column *)
Describe(d) ==
    LET xs == Defined(Column(d, "sentiment_score"))
        sorted == Sort(xs)
    IN IF d.dtype = "object"
       THEN [NoStats EXCEPT !.keys = {"count", "unique", "top", "freq"},
                            !.count = Len(xs)]
       ELSE [keys |-> {"count", "mean", "std", "min", "25%", "50%", "75%", "max"},
             count |-> Len(xs),
             mean |-> Mean(xs),
             min |-> IF xs = <<>> THEN NaN ELSE sorted[1],
             max |-> IF xs = <<>> THEN NaN ELSE sorted[Len(xs)],
             median |-> Median(xs),
             std_defined |-> Len(xs) > 1]

(* the keys lines 268-275 read from score_stats *)
StatsRead == {"mean", "min", "50%", "max", "std", "count"}

(* lines 281-285: per label of the view, its first comments *)
Samples(d) ==
    [l \in Range(Column(d, "sentiment_label")) |->
        LET mine == SelectSeq(d.rows, LAMBDA r : r.sentiment_label = l)
        IN [i \in 1..Min(SampleRows, Len(mine)) |-> mine[i].comment]]

----------------------------------------------------------------------------
(* The script run *)

NoView == [some |-> FALSE, view |-> NoFrame]

(* the state a run starts from: nothing rendered, nothing computed *)
Fresh ==
    /\ out' = <<>>
    /\ raised' = ""
    /\ df' = NoFrame
    /\ metadata' = NoMetadata
    /\ sentiment_analysis' = NoSummary
    /\ sentiment_filter' = NoSelection
    /\ min_confidence' = 0
    /\ filtered_df' = NoFrame
    /\ sentiment_counts' = EmptyMap
    /\ word_freq' = <<>>
    /\ score_stats' = NoStats
    /\ samples' = EmptyMap
    /\ csv_data' = NoFile

Init ==
    /\ pc = "main"
    /\ uploaded = NoFile
    /\ out = <<>>
    /\ raised = ""
    /\ df = NoFrame
    /\ metadata = NoMetadata
    /\ sentiment_analysis = NoSummary
    /\ sentiment_filter = NoSelection
    /\ min_confidence = 0
    /\ filtered_df = NoFrame
    /\ sentiment_counts = EmptyMap
    /\ word_freq = <<>>
    /\ score_stats = NoStats
    /\ samples = EmptyMap
    /\ csv_data = NoFile
    /\ prev_view = NoView

(* except Exception as e: st.error(...) -- lines 325-326 and 360-361 *)
Raise(where) ==
    /\ out' = Append(out, "error")
    /\ raised' = where
    /\ pc' = "done"

(* lines 363-421: no file in either uploader *)
Welcome ==
    /\ pc = "main"
    /\ uploaded.fmt = "none"
    /\ out' = Append(out, "welcome")
    /\ pc' = "done"
    /\ UNCHANGED <<uploaded, raised, df, metadata, sentiment_analysis,
                   sentiment_filter, min_confidence, filtered_df,
                   sentiment_counts, word_freq, score_stats, samples,
                   csv_data, prev_view>>

(* the user puts a report in the empty JSON uploader; Streamlit runs the
   script again.  (A run keeps nothing of the run before it, so replacing
   a file by another reaches the same states; Reupload is the one
   replacement whose file depends on the run before it.) *)
UploadJSON ==
    /\ pc = "done"
    /\ uploaded = NoFile
    /\ \/ uploaded' = BadJson
       \/ \E d \in Dates, w \in Wordclouds :
             uploaded' = JsonWithoutData(d, w)
       \/ \E cols \in SUBSET Columns, n \in 0..MaxRows,
             d \in Dates, w \in Wordclouds :
             \E rows \in TablesOf(n, cols, JsonTexts, JsonScores) :
                uploaded' = JsonWithData(cols, rows, d, w)
    /\ pc' = "main"
    /\ prev_view' = NoView
    /\ Fresh

(* the user puts a table in the empty CSV uploader *)
UploadCSV ==
    /\ pc = "done"
    /\ uploaded = NoFile
    /\ \/ uploaded' = BadCsv
       \/ \E cols \in (SUBSET Columns) \ {{}}, n \in 0..MaxRows :
             \E rows \in TablesOf(n, cols, CsvTexts, CsvScores) :
                uploaded' = CsvFileOf(TRUE, cols, rows)
    /\ pc' = "main"
    /\ prev_view' = NoView
    /\ Fresh

(* the user changes a widget; Streamlit runs the script again on the same
   file *)
Rerun ==
    /\ pc = "done"
    /\ uploaded.fmt # "none"
    /\ pc' = "main"
    /\ Fresh
    /\ UNCHANGED <<uploaded, prev_view>>

(* the user uploads the filtered-results download as the results CSV *)
Reupload ==
    /\ pc = "done"
    /\ csv_data.fmt = "csv"
    /\ uploaded' = csv_data
    /\ prev_view' = [some |-> TRUE, view |-> filtered_df]
    /\ pc' = "main"
    /\ Fresh

(* lines 318-323: json.load and the success notice *)
LoadJSON ==
    /\ pc = "main"
    /\ uploaded.fmt = "json"
    /\ IF uploaded.ok
       THEN /\ out' = Append(out, "success")
            /\ pc' = "display"
            /\ UNCHANGED raised
       ELSE Raise("load")
    /\ UNCHANGED <<uploaded, df, metadata, sentiment_analysis,
                   sentiment_filter, min_confidence, filtered_df,
                   sentiment_counts, word_freq, score_stats, samples,
                   csv_data, prev_view>>

(* lines 329-332: pd.read_csv and the success notice *)
LoadCSV ==
    /\ pc = "main"
    /\ uploaded.fmt = "csv"
    /\ IF uploaded.ok
       THEN /\ df' = ReadCsv(uploaded)
            /\ out' = Append(out, "success")
            /\ pc' = "summary"
            /\ UNCHANGED raised
       ELSE /\ Raise("load")
            /\ UNCHANGED df
    /\ UNCHANGED <<uploaded, metadata, sentiment_analysis,
                   sentiment_filter, min_confidence, filtered_df,
                   sentiment_counts, word_freq, score_stats, samples,
                   csv_data, prev_view>>

(* lines 334-356: the metadata and the sentiment summary of a CSV table;
   the percentages divide by the row count *)
Summarize ==
    /\ pc = "summary"
    /\ IF "sentiment_label" \in df.cols /\ Len(df.rows) = 0
       THEN /\ Raise("summary")
            /\ UNCHANGED <<metadata, sentiment_analysis>>
       ELSE /\ metadata' = [present |-> TRUE, total_comments |-> Len(df.rows),
                            analysis_date |-> "iso"]
            /\ sentiment_analysis' =
                   IF "sentiment_label" \in df.cols
                   THEN Summary(df) ELSE NoSummary
            /\ pc' = "display"
            /\ UNCHANGED <<out, raised>>
    /\ UNCHANGED <<uploaded, df, sentiment_filter, min_confidence,
                   filtered_df, sentiment_counts, word_freq, score_stats,
                   samples, csv_data, prev_view>>

(* lines 77-106: the table from results_data['data'], and the key metrics *)
Metrics ==
    /\ pc = "display"
    /\ df' = IF uploaded.fmt = "json"
             THEN (IF uploaded.has_data
                   THEN FromRecords(uploaded.cols, uploaded.rows)
                   ELSE NoFrame)
             ELSE FromCsvRecords(df)
    /\ metadata' =
           IF uploaded.fmt = "json"
           THEN [present |-> uploaded.analysis_date # "absent",
                 total_comments |-> Len(df'.rows),
                 analysis_date |-> uploaded.analysis_date]
           ELSE metadata
    /\ out' = Append(out, "metrics")
    /\ pc' = "info"
    /\ UNCHANGED <<uploaded, raised, sentiment_analysis, sentiment_filter,
                   min_confidence, filtered_df, sentiment_counts, word_freq,
                   score_stats, samples, csv_data, prev_view>>

(* lines 108-122: datetime.fromisoformat raises on a malformed date *)
Info ==
    /\ pc = "info"
    /\ IF metadata.present /\ metadata.analysis_date = "bad"
       THEN Raise("info")
       ELSE /\ out' = IF metadata.present THEN Append(out, "info") ELSE out
            /\ pc' = "data"
            /\ UNCHANGED raised
    /\ UNCHANGED <<uploaded, df, metadata, sentiment_analysis,
                   sentiment_filter, min_confidence, filtered_df,
                   sentiment_counts, word_freq, score_stats, samples,
                   csv_data, prev_view>>

(* the options of the multiselect: the labels of the table, or no widget *)
FilterChoices(d) ==
    IF "sentiment_label" \in d.cols
    THEN {Selection(ls) : ls \in SUBSET Range(Column(d, "sentiment_label"))}
    ELSE {NoSelection}

(* the positions of the slider, or 0.0 without a score column *)
ConfidenceChoices(d) ==
    IF "sentiment_score" \in d.cols THEN Thresholds ELSE {0}

(* lines 124-162: the widgets, the filters and the table; nothing below
   line 125 runs on an empty table *)
FilterStep ==
    /\ pc = "data"
    /\ IF Empty(df)
       THEN /\ pc' = "done"
            /\ UNCHANGED <<out, sentiment_filter, min_confidence, filtered_df>>
       ELSE \E sf \in FilterChoices(df), mc \in ConfidenceChoices(df) :
              /\ sentiment_filter' = sf
              /\ min_confidence' = mc
              /\ filtered_df' = ApplyFilters(df, sf, mc)
              /\ out' = Append(out, "table")
              /\ pc' = "charts"
    /\ UNCHANGED <<uploaded, raised, df, metadata, sentiment_analysis,
                   sentiment_counts, word_freq, score_stats, samples,
                   csv_data, prev_view>>

(* lines 164-256: the distribution charts, the score charts and the word
   cloud or the word frequencies *)
Visualize ==
    /\ pc = "charts"
    /\ sentiment_counts' =
           IF "sentiment_label" \in filtered_df.cols
           THEN ValueCounts(Column(filtered_df, "sentiment_label"))
           ELSE EmptyMap
    /\ word_freq' =
           IF uploaded.wordcloud = "absent" /\ "comment" \in filtered_df.cols
           THEN WordFreq(filtered_df, uploaded.fmt)
           ELSE <<>>
    /\ out' = out \o <<"charts">> \o
           (CASE uploaded.wordcloud = "png" -> <<"wordcloud">>
              [] uploaded.wordcloud = "bad" -> <<"wordcloud_error">>
              [] OTHER -> IF word_freq' # <<>> THEN <<"words">>
                          ELSE <<"warning">>)
    /\ pc' = "explore"
    /\ UNCHANGED <<uploaded, raised, df, metadata, sentiment_analysis,
                   sentiment_filter, min_confidence, filtered_df,
                   score_stats, samples, csv_data, prev_view>>

(* lines 258-285: the score statistics and the sample comments; reading a
   key describe() did not produce raises KeyError *)
Explore ==
    /\ pc = "explore"
    /\ score_stats' =
           IF "sentiment_score" \in filtered_df.cols
           THEN Describe(filtered_df) ELSE NoStats
    /\ IF "sentiment_score" \in filtered_df.cols
          /\ ~(StatsRead \subseteq score_stats'.keys)
       THEN /\ Raise("explore")
            /\ UNCHANGED samples
       ELSE /\ samples' =
                   IF {"sentiment_label", "comment"} \subseteq filtered_df.cols
                   THEN Samples(filtered_df) ELSE EmptyMap
            /\ out' = IF "sentiment_score" \in filtered_df.cols
                      THEN Append(out, "stats") ELSE out
            /\ pc' = "downloads"
            /\ UNCHANGED raised
    /\ UNCHANGED <<uploaded, df, metadata, sentiment_analysis,
                   sentiment_filter, min_confidence, filtered_df,
                   sentiment_counts, word_freq, csv_data, prev_view>>

(* lines 287-312: the CSV downloads *)
Downloads ==
    /\ pc = "downloads"
    /\ csv_data' = ToCsv(filtered_df)
    /\ out' = Append(out, "downloads")
    /\ pc' = "done"
    /\ UNCHANGED <<uploaded, raised, df, metadata, sentiment_analysis,
                   sentiment_filter, min_confidence, filtered_df,
                   sentiment_counts, word_freq, score_stats, samples,
                   prev_view>>

Next ==
    \/ Welcome
    \/ UploadJSON
    \/ UploadCSV
    \/ Rerun
    \/ Reupload
    \/ LoadJSON
    \/ LoadCSV
    \/ Summarize
    \/ Metrics
    \/ Info
    \/ FilterStep
    \/ Visualize
    \/ Explore
    \/ Downloads

Spec == Init /\ [][Next]_vars

----------------------------------------------------------------------------
(* The filter stage on its own: the script at line 124, after a report
   without metadata date and word cloud, or a CSV table, has been loaded *)

AtData(f) ==
    /\ pc = "data"
    /\ uploaded = f
    /\ raised = ""
    /\ df = IF f.fmt = "json"
            THEN FromRecords(f.cols, f.rows)
            ELSE FromCsvRecords(ReadCsv(f))
    /\ metadata = IF f.fmt = "json"
                  THEN [NoMetadata EXCEPT !.total_comments = Len(f.rows)]
                  ELSE [present |-> TRUE, total_comments |-> Len(f.rows),
                        analysis_date |-> "iso"]
    /\ out = IF f.fmt = "json" THEN <<"success", "metrics">>
             ELSE <<"success", "metrics", "info">>
    /\ sentiment_analysis =
           IF f.fmt = "csv" /\ "sentiment_label" \in f.cols
           THEN Summary(ReadCsv(f)) ELSE NoSummary
    /\ sentiment_filter = NoSelection
    /\ min_confidence = 0
    /\ filtered_df = NoFrame
    /\ sentiment_counts = EmptyMap
    /\ word_freq = <<>>
    /\ score_stats = NoStats
    /\ samples = EmptyMap
    /\ csv_data = NoFile
    /\ prev_view = NoView

InitFilter ==
    \E cols \in SUBSET Columns, n \in 1..MaxRows :
       \/ \E rows \in TablesOf(n, cols, JsonTexts, JsonScores) :
             AtData(JsonWithData(cols, rows, "absent", "absent"))
       \/ /\ cols # {}
          /\ \E rows \in TablesOf(n, cols, CsvTexts, CsvScores) :
                AtData(CsvFileOf(TRUE, cols, rows))

NextFilter == FilterStep

SpecFilter == InitFilter /\ [][NextFilter]_vars

----------------------------------------------------------------------------
(* Properties *)

(* the filters of this run have been applied *)
Filtered == "table" \in Range(out)

IsSubsequence(sub, s) ==
    \E keep \in SUBSET (1..Len(s)) : SelectSeq2(s, keep) = sub

LabelsPresent(d) == Range(Column(d, "sentiment_label"))

(* C1: with a sentiment_label column, every row of the filtered view has a
   label among the allowed labels, whatever the selection (the empty one
   included), and the view is an order-preserving subsequence of the
   table. *)
C1_OnlyAllowedLabels ==
    (Filtered /\ "sentiment_label" \in df.cols) =>
        /\ \A i \in 1..Len(filtered_df.rows) :
              filtered_df.rows[i].sentiment_label \in sentiment_filter.labels
        /\ IsSubsequence(filtered_df.rows, df.rows)

(* the rows the label filter lets through when at least one label is
   selected, or when there is no label column *)
PassLabel(d, sf) ==
    IF "sentiment_label" \in d.cols
    THEN SelectSeq(d.rows, LAMBDA r : r.sentiment_label \in sf.labels)
    ELSE d.rows

(* C2: with a sentiment_score column, the threshold removes exactly the
   rows with a defined score strictly below min_score; a row without a
   score that passes the label filter is kept.  (Stated where a label is
   selected or there is no label column, on a float64 score column.) *)
C2_MissingScoreKept ==
    (/\ Filtered
     /\ "sentiment_score" \in df.cols
     /\ df.dtype = "float64"
     /\ ("sentiment_label" \in df.cols => Truthy(sentiment_filter))) =>
        filtered_df.rows =
            SelectSeq(PassLabel(df, sentiment_filter),
                      LAMBDA r : ~(/\ r.sentiment_score # NaN
                                   /\ r.sentiment_score < min_confidence))

(* the widgets are at their defaults: every label present, threshold 0.0 *)
DefaultCriteria ==
    /\ "sentiment_label" \in df.cols =>
           sentiment_filter = Selection(LabelsPresent(df))
    /\ min_confidence = 0

(* C3: on a non-empty table the default criteria (all labels present,
   min_score 0.0) give a view with the rows of the table in the same
   order.  (Stated on a float64 score column.) *)
C3_DefaultsKeepAll ==
    (Filtered /\ DefaultCriteria /\ df.dtype = "float64") =>
        filtered_df.rows = df.rows

(* C4: filtering is idempotent: the same criteria applied to the rows of
   the filtered view give the filtered view again. *)
C4_Idempotent ==
    Filtered =>
        ApplyFilters(filtered_df, sentiment_filter, min_confidence)
            = filtered_df

(* a view that lost a row to the label filter and a row of a selected
   label to the threshold, and kept a row *)
C4_Witness ==
    /\ Filtered
    /\ Truthy(sentiment_filter)
    /\ sentiment_filter.labels # LabelsPresent(df)
    /\ min_confidence > 0
    /\ \E i \in 1..Len(df.rows) :
          /\ df.rows[i].sentiment_label \in sentiment_filter.labels
          /\ ~ScoreAtLeast(df.rows[i].sentiment_score, min_confidence)
    /\ filtered_df.rows # <<>>

(* a fraction between 0 and 100 *)
IsPercentage(q) == q.den > 0 /\ 0 <= q.num /\ q.num <= 100 * q.den

(* C5: the load of a CSV table with a sentiment_label column succeeds, its
   two percentages lie in [0,100] and sum to at most 100, and a table
   labelled "POSITIVE" throughout has 100 and 0. *)
C5_CsvSummary ==
    (/\ pc = "done"
     /\ uploaded.fmt = "csv"
     /\ uploaded.ok
     /\ "sentiment_label" \in uploaded.cols) =>
        LET pos == sentiment_analysis.positive_percentage
            neg == sentiment_analysis.negative_percentage
        IN /\ raised = ""
           /\ sentiment_analysis.present
           /\ IsPercentage(pos)
           /\ IsPercentage(neg)
           /\ pos.num + neg.num <= 100 * pos.den
           /\ (\A i \in 1..Len(uploaded.rows) :
                  uploaded.rows[i].sentiment_label = "POSITIVE")
                 => (pos.num = 100 * pos.den /\ neg.num = 0)

(* the rows whose label is the given word in any spelling *)
CountIgnoringCase(d, word) ==
    Cardinality({i \in 1..Len(d.rows) :
                    Lower(d.rows[i].sentiment_label) = word})

(* C6: on the CSV path each percentage is 100 times the number of rows
   whose label is "positive" (resp. "negative") in any spelling, over the
   row count, whatever the mix of spellings. *)
C6_CaseInsensitive ==
    (uploaded.fmt = "csv" /\ sentiment_analysis.present) =>
        /\ sentiment_analysis.positive_percentage
              = Frac(100 * CountIgnoringCase(df, "positive"), Len(df.rows))
        /\ sentiment_analysis.negative_percentage
              = Frac(100 * CountIgnoringCase(df, "negative"), Len(df.rows))

(* C7: a load attempt ends either in a complete success, or in an error
   report and nothing else on the page; never in a success notice or
   rendered results followed by a load error. *)
C7_AllOrNothing ==
    (pc = "done" /\ uploaded.fmt # "none") =>
        \/ raised = "" /\ "success" \in Range(out)
        \/ out = <<"error">>

(* the word frequencies of this run have been computed *)
WordsCounted ==
    /\ "charts" \in Range(out)
    /\ uploaded.wordcloud = "absent"
    /\ "comment" \in filtered_df.cols

(* the occurrences of a word, in any spelling, in the comments of the
   view; a row without a comment has no word *)
Occurrences(d, word) ==
    Cardinality(UNION {
        { <<i, j>> : j \in {k \in 1..Len(d.rows[i].comment) :
                               Lower(d.rows[i].comment[k]) = word} } :
        i \in {r \in 1..Len(d.rows) : d.rows[r].comment # NoText} })

(* C8: the word frequencies have at most 20 entries, none a stop word or
   of length <= 2, each with the number of occurrences of its word in the
   comments of the filtered rows; a row without a comment contributes no
   word. *)
C8_WordFreq ==
    WordsCounted =>
        /\ Len(word_freq) <= TopWords
        /\ \A k \in 1..Len(word_freq) :
              /\ Len(word_freq[k].word) > 2
              /\ word_freq[k].word \notin StopWords
              /\ word_freq[k].n = Occurrences(filtered_df, word_freq[k].word)

(* the statistics of this run have been computed *)
StatsComputed ==
    /\ pc \in {"downloads", "done"}
    /\ Filtered
    /\ "sentiment_score" \in filtered_df.cols

(* C9: the filter-and-aggregate stage raises no error on any loaded table
   and any criteria, and without a defined score in the view the
   statistics are count 0 and undefined values. *)
C9_StageTotal ==
    /\ raised \notin {"data", "charts", "explore", "downloads"}
    /\ (/\ StatsComputed
        /\ \A i \in 1..Len(filtered_df.rows) :
              filtered_df.rows[i].sentiment_score = NaN)
          => (score_stats.count = 0 /\ score_stats.mean = NaNFrac)

(* C10: the filtered view written to CSV and loaded again through the CSV
   path is a table with the same rows in the same order, rows with an
   empty text included. *)
C10_RoundTrip ==
    (prev_view.some /\ pc = "summary") =>
        /\ df.cols = prev_view.view.cols
        /\ df.rows = prev_view.view.rows

====
